---------------------------- MODULE Spec2Model ----------------------------
(***************************************************************************)
(* A model of src/main.py: the order conversation, the balance kept in    *)
(* data.json and the reconciliation of crypto invoices.                   *)
(*                                                                         *)
(* The persisted store (data.json) is users, orders and payments.  The    *)
(* process memory is user_data (context.user_data of each user) and the   *)
(* step of each user's conversations.  A handler that returns a state     *)
(* constant moves the user's conversation to that state, a handler that   *)
(* returns ConversationHandler.END ends it, and a handler that returns     *)
(* None or raises leaves it where it was.  A handler listed under a state *)
(* of a ConversationHandler in main() runs in that state; a handler that  *)
(* main() also registers on the application itself runs in every state.   *)
(* The transport may deliver any callback query whose data is rendered on *)
(* some screen of the bot, because the chat keeps old keyboards; the      *)
(* confirm button is tracked, being the one that spends money.            *)
(* The "system" section of data.json (rate, error log, last activity) is  *)
(* not part of the state.                                                  *)
(***************************************************************************)
EXTENDS Integers, Sequences, FiniteSets, TLC

VARIABLES
    users,           \* data['users']: user id -> [balance]
    orders,          \* data['orders']: order id -> order record
    payments,        \* data['payments'] in insertion order: Seq of payment records
    user_data,       \* context.user_data: user id -> dict (a function on its keys)
    conv,            \* step of the order conversation of each user
    topup,           \* step of the top-up conversation of each user
    confirm_button,  \* a review screen with the confirm_order button is in the chat
    gateway,         \* the payment provider: invoice id -> "active" | "paid"
    restart_pending, \* restart_bot is sleeping before os.execl
    debited,         \* history: ids of the orders whose debit was written
    credits,         \* history: invoice id -> number of credits written for it
    last_cycle,      \* history: the last finished run of check_pending_payments
    clock,           \* datetime.now(), in seconds from the start of the month
    calendar,        \* the day buttons of the calendars shown to each user
    data_file,       \* data.json on disk: "closed", "open" for writing, or "torn"
    admin_conv,      \* step of the admin conversation of each user
    usdt_rate        \* data['system']['usdt_rate'], in RUB

vars == <<users, orders, payments, user_data, conv, topup, confirm_button,
          gateway, restart_pending, debited, credits, last_cycle, clock, calendar,
          data_file, admin_conv, usdt_rate>>

(***************************************************************************)
(* Bounds of the model.                                                    *)
(***************************************************************************)
MaxOrders == 2
MaxInvoices == 2
StartBalance == 300

Users == {1, 2}

\* The users who go through the order conversation.
Customers == {1}

(***************************************************************************)
(* Program constants.                                                      *)
(***************************************************************************)
GET_CHANNEL == "GET_CHANNEL"
GET_DATE == "GET_DATE"
GET_TIME == "GET_TIME"
GET_DURATION == "GET_DURATION"
CONFIRM_ORDER == "CONFIRM_ORDER"
GET_AMOUNT == "GET_AMOUNT"
END == "END"
MaxChannelLen == 100
MinTopup == 100
wrapped_params == 2
RESTART_DELAY == 10
ADMIN_BALANCE_CHANGE == "ADMIN_BALANCE_CHANGE"
DefaultRate == 80

\* ADMIN_IDS of the environment: data['admins'] is written from it by init_db
\* and by nothing else.
ADMIN_IDS == {2}

is_admin(user_id) == user_id \in ADMIN_IDS

(***************************************************************************)
(* Dictionaries: a Python dict is a function on the set of its keys.       *)
(***************************************************************************)
EmptyDict == [k \in {} |-> 0]

Put(d, k, v) == [x \in DOMAIN d \cup {k} |-> IF x = k THEN v ELSE d[x]]

Has(d, k) == k \in DOMAIN d


Merge(d, updates) ==
    [k \in DOMAIN d \cup DOMAIN updates |->
        IF k \in DOMAIN updates THEN updates[k] ELSE d[k]]

(***************************************************************************)
(* The price table.                                                        *)
(***************************************************************************)
Prices ==
    [twitch  |-> [chat_ru |-> 100, chat_eng |-> 120, viewers |-> 150, followers |-> 200],
     youtube |-> [chat_ru |-> 90,  chat_eng |-> 110, viewers |-> 140, followers |-> 180],
     kick    |-> [chat_ru |-> 80,  chat_eng |-> 100, viewers |-> 130, followers |-> 160]]

\* str.lower() on the texts the platform filter lets through.
Lower(text) ==
    CASE text = "Twitch" -> "twitch"
      [] text = "YouTube" -> "youtube"
      [] text = "Kick" -> "kick"
      [] OTHER -> text

get_service_prices(platform) ==
    IF Lower(platform) \in DOMAIN Prices THEN Prices[Lower(platform)] ELSE Prices["twitch"]

(***************************************************************************)
(* The JSON store.  json.dump writes every dict key as a string, so the   *)
(* key of a payment read back from data.json is the string form of the    *)
(* invoice id, while the record's invoice_id field keeps the type the     *)
(* gateway gave it.  A JSON scalar is [t |-> its type, v |-> its digits].  *)
(***************************************************************************)
JsonInt(n) == [t |-> "int", v |-> n]

JsonKey(x) == [t |-> "str", v |-> x.v]

\* The timestamps of a user record are the one value "now".
DefaultUser == [balance |-> 0, last_activity |-> "now"]

update_user(us, user_id, updates) ==
    LET base == IF user_id \in DOMAIN us THEN us[user_id] ELSE DefaultUser
    IN  [x \in DOMAIN us \cup {user_id} |->
            IF x = user_id THEN Merge(base, updates) ELSE us[x]]

\* Mutant: the identifier is not fresh.
NewOrderId_First(os) == 1

\* uuid.uuid4(): an identifier no order has yet.
NewOrderId(os) == Cardinality(DOMAIN os) + 1

create_order(os, order_data) ==
    LET order_id == NewOrderId(os)
    IN  Put(os, order_id,
            Merge(order_data,
                  [order_id |-> order_id, order_date |-> clock, status |-> "pending"]))

\* update_order is called from nowhere in main.py.
update_order(os, order_id, updates) ==
    IF order_id \in DOMAIN os
    THEN [os EXCEPT ![order_id] = Merge(@, updates)]
    ELSE os

PaymentIndex(ps, key) == {i \in 1..Len(ps) : ps[i].key = key}

create_payment(ps, payment_data) ==
    LET key == JsonKey(payment_data.invoice_id)
        rec == Merge(payment_data, [key |-> key])
    IN  IF PaymentIndex(ps, key) = {}
        THEN Append(ps, rec)
        ELSE [i \in 1..Len(ps) |-> IF ps[i].key = key THEN rec ELSE ps[i]]

\* "if invoice_id in data['payments']": the lookup compares invoice_id with the keys.
update_payment(ps, invoice_id, updates) ==
    IF PaymentIndex(ps, invoice_id) # {}
    THEN [i \in 1..Len(ps) |->
            IF ps[i].key = invoice_id THEN Merge(ps[i], updates) ELSE ps[i]]
    ELSE ps

get_pending_payments(ps) == SelectSeq(ps, LAMBDA p : p.status = "created")

(***************************************************************************)
(* catch_errors replaces the function by wrapped(update, context); a call *)
(* that passes another number of positional arguments raises TypeError    *)
(* before the function's body starts.                                      *)
(***************************************************************************)
CallRaisesTypeError(nargs) == nargs # wrapped_params

\* check_crypto_payment(invoice_id), as called from check_pending_payments.
check_crypto_payment(gw, invoice_id) ==
    IF CallRaisesTypeError(1)
    THEN [raised |-> TRUE, status |-> "none"]
    ELSE [raised |-> FALSE, status |-> gw[invoice_id.v]]

(***************************************************************************)
(* The loop of check_pending_payments over the payments read at its start.*)
(* st is [users, payments, credits, aborted]; an exception ends the loop. *)
(***************************************************************************)
\* Mutant: a failed status check is taken for "paid" and the payment is credited.
RunCycle_CreditOnError(list, gw, st) ==
    IF list = <<>> THEN st
    ELSE LET payment == Head(list)
         IN  [st EXCEPT !.payments = update_payment(st.payments, JsonKey(payment.invoice_id),
                                                    [status |-> "paid", paid_at |-> "now"]),
                        !.credits = [st.credits EXCEPT ![payment.invoice_id.v] = @ + 1],
                        !.aborted = TRUE]

RECURSIVE RunCycle(_, _, _)
RunCycle(list, gw, st) ==
    IF list = <<>> THEN st
    ELSE
      LET payment == Head(list)
          invoice_id == payment.invoice_id
          user_id == payment.user_id
          amount == payment.amount
          payment_info == check_crypto_payment(gw, invoice_id)
      IN  IF payment_info.raised THEN [st EXCEPT !.aborted = TRUE]
          ELSE IF payment_info.status = "paid"
          THEN LET ps2 == update_payment(st.payments, invoice_id,
                                         [status |-> "paid", paid_at |-> "now"])
               IN  IF user_id \notin DOMAIN st.users
                   THEN [st EXCEPT !.payments = ps2, !.aborted = TRUE]
                   ELSE RunCycle(Tail(list), gw,
                          [users |-> update_user(st.users, user_id,
                                       [balance |-> st.users[user_id].balance + amount]),
                           payments |-> ps2,
                           credits |-> [st.credits EXCEPT ![invoice_id.v] = @ + 1],
                           aborted |-> FALSE])
          ELSE RunCycle(Tail(list), gw, st)

(***************************************************************************)
(* Inputs of the handlers.                                                 *)
(***************************************************************************)
PlatformTexts == {"Twitch"}

ServiceButtons == {"service_chat_ru", "service_viewers"}

\* query.data.split('_')[1]
SplitSecond(data) ==
    CASE data = "service_chat_ru" -> "chat"
      [] data = "service_chat_eng" -> "chat"
      [] data = "service_viewers" -> "viewers"
      [] data = "service_followers" -> "followers"
      [] data = "duration_1" -> "1"
      [] data = "duration_2" -> "2"
      [] data = "duration_4" -> "4"
      [] data = "calendar_2030-1-5" -> "2030-1-5"
      [] OTHER -> "?"

\* A channel text is known by its length after strip().
ChannelTexts == {0, 8, 101}

CalendarButtons == {"calendar_2030-1-5"}

\* datetime(year, month, day).strftime("%Y-%m-%d")
FormatDate(date_str) == IF date_str = "2030-1-5" THEN "2030-01-05" ELSE date_str

\* datetime(year, month, day), in seconds from the start of the month; every
\* date of the model lies in January 2030.
Midnight(day) == day * 24 * 60 * 60

\* datetime(year, month, day, hours, minutes)
DateTime(day, hours, minutes) == Midnight(day) + (hours * 60 + minutes) * 60

\* year, month, day = map(int, date_str.split('-'))
DayOf(date_str) ==
    CASE date_str = "2030-1-5" -> 5
      [] date_str = "2030-01-05" -> 5
      [] OTHER -> 1

\* The readings of the clock: noon of the 4th, five seconds before and five
\* seconds after 18:30 of the 5th, noon of the 6th.
ClockTimes ==
    {DateTime(4, 12, 0), DateTime(5, 18, 30) - 5, DateTime(5, 18, 30) + 5, DateTime(6, 12, 0)}

\* show_calendar: a day gets a button unless datetime(year, month, day) < now.
show_calendar(now) ==
    {data \in CalendarButtons : ~(Midnight(DayOf(SplitSecond(data))) < now)}

TimeTexts == {"18:30", "25:00", "soon"}

\* hours, minutes = map(int, time_str.split(':'))
ParseTime(time_str) ==
    CASE time_str = "18:30" -> [ok |-> TRUE, hours |-> 18, minutes |-> 30]
      [] time_str = "25:00" -> [ok |-> TRUE, hours |-> 25, minutes |-> 0]
      [] OTHER -> [ok |-> FALSE, hours |-> 0, minutes |-> 0]

\* Mutant: the range of the hours and minutes is not checked.
TimeParses_NoRange(time_str) == ParseTime(time_str).ok

\* The text parses and 0 <= hours < 24 and 0 <= minutes < 60.
TimeParses(time_str) ==
    LET t == ParseTime(time_str)
    IN  t.ok /\ 0 <= t.hours /\ t.hours < 24 /\ 0 <= t.minutes /\ t.minutes < 60

\* datetime.now() when get_time runs, as the minute of the selected day.
NowTimes == {0, 18 * 60 + 30, 23 * 60 + 59}

\* stream_datetime < datetime.now()
IsPast(time_str, now) ==
    LET t == ParseTime(time_str) IN t.hours * 60 + t.minutes < now

\* The same comparison when now is the clock: the date of the draft and the
\* text, where both can be read, against the reading of the clock.
StreamBefore(d, time_str, now) ==
    /\ Has(d, "stream_date")
    /\ ParseTime(time_str).ok
    /\ LET t == ParseTime(time_str)
       IN  DateTime(DayOf(d["stream_date"]), t.hours, t.minutes) < now

DurationTexts == {"2", "25", "two"}

DurationButtons == {"duration_1"}

\* int(text): [ok |-> it parsed, v |-> its value]
ParseInt(text) ==
    CASE text = "1" -> [ok |-> TRUE, v |-> 1]
      [] text = "2" -> [ok |-> TRUE, v |-> 2]
      [] text = "4" -> [ok |-> TRUE, v |-> 4]
      [] text = "25" -> [ok |-> TRUE, v |-> 25]
      [] text = "50" -> [ok |-> TRUE, v |-> 50]
      [] text = "500" -> [ok |-> TRUE, v |-> 500]
      [] OTHER -> [ok |-> FALSE, v |-> 0]

AmountTexts == {"50", "500", "two"}

(***************************************************************************)
(* The state after construction: init_db keeps the data.json it finds, so *)
(* users registered earlier have the balances they had.  The customer may *)
(* be new to the bot; the other users registered earlier.                  *)
(***************************************************************************)
InitBalances == {0, StartBalance}

Init ==
    /\ \E S \in {Users \ Customers, Users} :
         /\ users \in [S -> {[balance |-> b, last_activity |-> "now"] : b \in InitBalances}]
         /\ \A u \in S \ Customers : users[u].balance = StartBalance
    /\ orders = EmptyDict
    /\ payments = <<>>
    /\ user_data = [u \in Users |-> EmptyDict]
    /\ conv = [u \in Users |-> END]
    /\ topup = [u \in Users |-> END]
    /\ confirm_button = [u \in Users |-> FALSE]
    /\ gateway = EmptyDict
    /\ restart_pending = FALSE
    /\ debited = {}
    /\ credits = EmptyDict
    /\ last_cycle = [pending |-> {}, paid |-> {}]
    /\ clock = DateTime(4, 12, 0)
    /\ calendar = [u \in Users |-> {}]
    /\ data_file = "closed"
    /\ admin_conv = [u \in Users |-> END]
    /\ usdt_rate = DefaultRate

store == <<users, orders, payments>>
\* What the handlers of the order and top-up conversations leave alone: the
\* provider, the clock, the chat's keyboards, the state of the data file, the
\* admin conversation and the rate.
world == <<gateway, clock, calendar, data_file, admin_conv, usdt_rate>>
history == <<debited, credits, last_cycle>>
memory == <<user_data, conv, topup>>

\* catch_errors: the exception is logged, restart_bot is scheduled and the
\* exception is raised again, so the handler returns no state.
Raises == restart_pending' = TRUE

\* A text message goes to the top-up conversation while it waits for an amount,
\* because main() adds topup_conv before order_conv.
TextForOrder(u) == topup[u] # GET_AMOUNT

(***************************************************************************)
(* Handlers of the order conversation.                                     *)
(***************************************************************************)
\* Mutant: /start registers the user anew, with the balance of a new user.
start_Reregister(u) ==
    /\ users' = update_user(users, u, [balance |-> 0, last_activity |-> "now"])
    /\ UNCHANGED <<orders, payments, memory, confirm_button, world,
                   restart_pending, history>>

start(u) ==
    /\ users' = IF u \in DOMAIN users
                THEN update_user(users, u, [last_activity |-> "now"])
                ELSE update_user(users, u, [balance |-> 0, last_activity |-> "now"])
    /\ UNCHANGED <<orders, payments, memory, confirm_button, world,
                   restart_pending, history>>

get_platform(u, text) ==
    /\ LET platform == Lower(text)
       IN  IF platform \notin {"twitch", "youtube", "kick"}
           THEN UNCHANGED user_data
           ELSE user_data' = [user_data EXCEPT ![u] = Put(@, "platform", platform)]
    /\ UNCHANGED <<store, conv, topup, confirm_button, world, restart_pending, history>>

ask_channel(u, data) ==
    /\ user_data' = [user_data EXCEPT ![u] = Put(@, "service", SplitSecond(data))]
    /\ conv' = [conv EXCEPT ![u] = GET_CHANNEL]
    /\ UNCHANGED <<store, topup, confirm_button, world, restart_pending, history>>

\* Mutant: the channel text is stored before it is validated.
get_channel_StoreFirst(u, channel) ==
    /\ conv[u] = GET_CHANNEL
    /\ TextForOrder(u)
    /\ user_data' = [user_data EXCEPT ![u] = Put(@, "channel", channel)]
    /\ IF channel = 0 \/ channel > MaxChannelLen
       THEN UNCHANGED <<conv, calendar>>
       ELSE /\ conv' = [conv EXCEPT ![u] = GET_DATE]
            /\ calendar' = [calendar EXCEPT ![u] = @ \cup show_calendar(clock)]
    /\ UNCHANGED <<store, topup, confirm_button, gateway, clock, data_file,
                   admin_conv, usdt_rate,
                   restart_pending, history>>

get_channel(u, channel) ==
    /\ conv[u] = GET_CHANNEL
    /\ TextForOrder(u)
    /\ IF channel = 0 \/ channel > MaxChannelLen
       THEN UNCHANGED <<user_data, conv, calendar>>
       ELSE /\ user_data' = [user_data EXCEPT ![u] = Put(@, "channel", channel)]
            /\ calendar' = [calendar EXCEPT ![u] = @ \cup show_calendar(clock)]
            /\ conv' = [conv EXCEPT ![u] = GET_DATE]
    /\ UNCHANGED <<store, topup, confirm_button, gateway, clock, data_file,
                   admin_conv, usdt_rate,
                   restart_pending, history>>

\* The button pressed is one of a calendar shown to the user.  The date is
\* stored at line 923; the message text of line 926 reads selected_date.str,
\* which no datetime has, so the handler raises there.
handle_calendar(u, data) ==
    /\ conv[u] = GET_DATE
    /\ data \in calendar[u]
    /\ user_data' = [user_data EXCEPT ![u] = Put(@, "stream_date", FormatDate(SplitSecond(data)))]
    /\ Raises
    /\ UNCHANGED <<store, conv, topup, confirm_button, world, history>>

\* The services keyboard is built from user_data['platform'] (line 807, a
\* KeyError without it) and the handler returns GET_CHANNEL.
back_to_services(u) ==
    /\ IF Has(user_data[u], "platform")
       THEN conv' = [conv EXCEPT ![u] = GET_CHANNEL] /\ UNCHANGED restart_pending
       ELSE Raises /\ UNCHANGED conv
    /\ UNCHANGED <<store, user_data, topup, confirm_button, world, history>>

\* show_calendar edits the message into a calendar of the current month.
back_to_calendar(u) ==
    /\ calendar' = [calendar EXCEPT ![u] = @ \cup show_calendar(clock)]
    /\ conv' = [conv EXCEPT ![u] = GET_DATE]
    /\ UNCHANGED <<store, user_data, topup, confirm_button, gateway, clock, data_file,
                   admin_conv, usdt_rate,
                   restart_pending, history>>

back_to_time(u) ==
    /\ conv' = [conv EXCEPT ![u] = GET_TIME]
    /\ UNCHANGED <<store, user_data, topup, confirm_button, world, restart_pending, history>>

\* past: what "stream_datetime < datetime.now()" gives when the handler runs.
get_time(u, time_str, past) ==
    /\ conv[u] = GET_TIME
    /\ TextForOrder(u)
    /\ IF ~TimeParses(time_str)
       THEN UNCHANGED <<user_data, conv, restart_pending>>
       ELSE IF ~Has(user_data[u], "stream_date")
       THEN Raises /\ UNCHANGED <<user_data, conv>>
       ELSE IF past
       THEN UNCHANGED <<user_data, conv, restart_pending>>
       ELSE /\ user_data' = [user_data EXCEPT ![u] = Put(@, "start_time", time_str)]
            /\ conv' = [conv EXCEPT ![u] = GET_DURATION]
            /\ UNCHANGED restart_pending
    /\ UNCHANGED <<store, topup, confirm_button, world, history>>

(***************************************************************************)
(* get_duration after the duration is known (lines 1043-1102).  Each       *)
(* assignment to user_data that precedes a failing line stays: duration    *)
(* before the price lookup, amount before the review text is built.        *)
(***************************************************************************)
ReviewKeys == {"channel", "stream_date", "start_time"}

Review(us, d, user_id, duration) ==
    LET d1 == Put(d, "duration", duration)
        priced == /\ Has(d1, "platform")
                  /\ Has(d1, "service")
                  /\ d1["service"] \in DOMAIN get_service_prices(d1["platform"])
                  /\ user_id \in DOMAIN us
        total_amount == get_service_prices(d1["platform"])[d1["service"]] * duration
        shown == priced /\ ReviewKeys \subseteq DOMAIN d1
    IN  [data |-> IF priced THEN Put(d1, "amount", total_amount) ELSE d1,
         shown |-> shown,
         confirm |-> shown /\ us[user_id].balance >= total_amount]

ShowReview(u, duration) ==
    LET r == Review(users, user_data[u], u, duration)
    IN  /\ user_data' = [user_data EXCEPT ![u] = r.data]
        /\ IF r.shown
           THEN /\ conv' = [conv EXCEPT ![u] = CONFIRM_ORDER]
                /\ confirm_button' = [confirm_button EXCEPT ![u] = @ \/ r.confirm]
                /\ UNCHANGED restart_pending
           ELSE /\ Raises
                /\ UNCHANGED <<conv, confirm_button>>

\* Mutant: a text that is an integer is taken whatever its value.
get_duration_text_NoRange(u, text) ==
    /\ conv[u] = GET_DURATION
    /\ TextForOrder(u)
    /\ LET n == ParseInt(text)
       IN  IF ~n.ok
           THEN UNCHANGED <<user_data, conv, confirm_button, restart_pending>>
           ELSE ShowReview(u, n.v)
    /\ UNCHANGED <<store, topup, world, history>>

get_duration_text(u, text) ==
    /\ conv[u] = GET_DURATION
    /\ TextForOrder(u)
    /\ LET n == ParseInt(text)
       IN  IF ~n.ok \/ ~(1 <= n.v /\ n.v <= 24)
           THEN UNCHANGED <<user_data, conv, confirm_button, restart_pending>>
           ELSE ShowReview(u, n.v)
    /\ UNCHANGED <<store, topup, world, history>>

get_duration_button(u, data) ==
    /\ conv[u] = GET_DURATION
    /\ ShowReview(u, ParseInt(SplitSecond(data)).v)
    /\ UNCHANGED <<store, topup, world, history>>

(***************************************************************************)
(* cancel_order and cancel_payment answer the query, edit the message and *)
(* return END; neither reads or writes user_data or data.json.  edited is *)
(* whether the Bot API accepted edit_message_text, which is given a reply *)
(* keyboard here; when it did not, the handler raises.                     *)
(***************************************************************************)
cancel_order(u, edited) ==
    /\ IF edited
       THEN conv' = [conv EXCEPT ![u] = END] /\ UNCHANGED restart_pending
       ELSE Raises /\ UNCHANGED conv
    /\ UNCHANGED <<store, user_data, topup, confirm_button, world, history>>

cancel_payment(u, edited) ==
    /\ IF edited
       THEN topup' = [topup EXCEPT ![u] = END] /\ UNCHANGED restart_pending
       ELSE Raises /\ UNCHANGED topup
    /\ UNCHANGED <<store, user_data, conv, confirm_button, world, history>>

\* The callback data for which main() registers a handler.
RoutedCallbacks ==
    {"pay_crypto", "back_to_menu", "back_to_platforms", "back_to_services",
     "back_to_channel", "back_to_calendar", "back_to_time", "cancel_order",
     "cancel_payment", "confirm_order", "change_order"}
    \cup ServiceButtons \cup CalendarButtons \cup DurationButtons

\* The buttons of the review screen shown when the balance is too low.
ReviewButtons == {"topup_balance"}

\* A callback query whose data no registered pattern matches is dropped.
callback_query(u, data) ==
    /\ data \notin RoutedCallbacks
    /\ UNCHANGED vars

(***************************************************************************)
(* confirm_order.  The draft is read first (a missing key raises before   *)
(* anything is written); create_order and update_user each rewrite        *)
(* data.json.                                                              *)
(***************************************************************************)
DraftKeys == {"platform", "service", "channel", "stream_date", "start_time",
              "duration", "amount"}

OrderData(d, user_id) ==
    [user_id |-> user_id, platform |-> d["platform"], service |-> d["service"],
     channel |-> d["channel"], stream_date |-> d["stream_date"],
     start_time |-> d["start_time"], duration |-> d["duration"],
     amount |-> d["amount"], status |-> "pending", payment_method |-> "balance"]

CanConfirm(u) ==
    /\ confirm_button[u]
    /\ Cardinality(DOMAIN orders) < MaxOrders

\* Mutant: the debit is not applied.
NewBalance_NoDebit(balance, amount) == balance

\* new_balance = user_data['balance'] - order_data['amount']
NewBalance(balance, amount) == balance - amount

confirm_order(u) ==
    /\ CanConfirm(u)
    /\ IF ~(DraftKeys \subseteq DOMAIN user_data[u])
       THEN Raises /\ UNCHANGED <<users, orders, conv, debited>>
       ELSE LET order_data == OrderData(user_data[u], u)
            IN  /\ orders' = create_order(orders, order_data)
                /\ IF u \notin DOMAIN users
                   THEN Raises /\ UNCHANGED <<users, conv, debited>>
                   ELSE /\ users' = update_user(users, u,
                               [balance |-> NewBalance(users[u].balance, order_data.amount)])
                        /\ debited' = debited \cup {NewOrderId(orders)}
                        /\ conv' = [conv EXCEPT ![u] = END]
                        /\ UNCHANGED restart_pending
    /\ UNCHANGED <<payments, user_data, topup, confirm_button, world, credits, last_cycle>>

\* The process stops after create_order has saved data.json and before
\* update_user saves it; what is in memory is gone when it starts again.
confirm_order_stopped(u) ==
    /\ CanConfirm(u)
    /\ DraftKeys \subseteq DOMAIN user_data[u]
    /\ orders' = create_order(orders, OrderData(user_data[u], u))
    /\ user_data' = [x \in Users |-> EmptyDict]
    /\ conv' = [x \in Users |-> END]
    /\ topup' = [x \in Users |-> END]
    /\ admin_conv' = [x \in Users |-> END]
    /\ restart_pending' = FALSE
    /\ UNCHANGED <<users, payments, confirm_button, gateway, clock, calendar,
                   data_file, usdt_rate, history>>

(***************************************************************************)
(* The top-up conversation and the payment provider.                       *)
(***************************************************************************)
topup_balance(u) ==
    /\ topup' = [topup EXCEPT ![u] = GET_AMOUNT]
    /\ UNCHANGED <<store, user_data, conv, confirm_button, world, restart_pending, history>>

get_amount(u, text) ==
    /\ topup[u] = GET_AMOUNT
    /\ LET amount == ParseInt(text)
       IN  IF ~amount.ok \/ amount.v < MinTopup
           THEN UNCHANGED <<user_data, topup>>
           ELSE /\ user_data' = [user_data EXCEPT ![u] = Put(@, "topup_amount", amount.v)]
                /\ topup' = [topup EXCEPT ![u] = CONFIRM_ORDER]
    /\ UNCHANGED <<store, conv, confirm_button, world, restart_pending, history>>

\* What create_crypto_invoice comes back with: an invoice, no result, or an exception.
InvoiceOutcomes == {"invoice", "none", "raise"}

\* The provider numbers its invoices.
NewInvoiceId(gw) == Cardinality(DOMAIN gw) + 1

\* Mutant: the payment is recorded before the invoice is asked for.
process_crypto_payment_RecordFirst(u, outcome) ==
    /\ Has(user_data[u], "topup_amount")
    /\ Cardinality(DOMAIN gateway) < MaxInvoices
    /\ LET id == NewInvoiceId(gateway)
       IN  /\ payments' = create_payment(payments,
                  [invoice_id |-> JsonInt(id), user_id |-> u,
                   amount |-> user_data[u]["topup_amount"], currency |-> "RUB",
                   status |-> "created", created_at |-> "now"])
           /\ credits' = Put(credits, id, 0)
           /\ gateway' = IF outcome = "invoice" THEN Put(gateway, id, "active") ELSE gateway
    /\ UNCHANGED <<users, orders, memory, confirm_button, debited, last_cycle,
                   clock, calendar, data_file, admin_conv, usdt_rate, restart_pending>>

process_crypto_payment(u, outcome) ==
    /\ outcome = "invoice" => Cardinality(DOMAIN gateway) < MaxInvoices
    /\ IF ~Has(user_data[u], "topup_amount") \/ outcome = "raise"
       THEN Raises /\ UNCHANGED <<payments, gateway, credits>>
       ELSE IF outcome = "none"
       THEN UNCHANGED <<payments, gateway, credits, restart_pending>>
       ELSE LET id == NewInvoiceId(gateway)
            IN  /\ gateway' = Put(gateway, id, "active")
                /\ payments' = create_payment(payments,
                       [invoice_id |-> JsonInt(id), user_id |-> u,
                        amount |-> user_data[u]["topup_amount"], currency |-> "RUB",
                        status |-> "created", created_at |-> "now"])
                /\ credits' = Put(credits, id, 0)
                /\ UNCHANGED restart_pending
    /\ UNCHANGED <<users, orders, memory, confirm_button, debited, last_cycle,
                   clock, calendar, data_file, admin_conv, usdt_rate>>

\* The user pays the invoice at the provider.
pay_invoice(id) ==
    /\ id \in DOMAIN gateway
    /\ gateway[id] = "active"
    /\ gateway' = [gateway EXCEPT ![id] = "paid"]
    /\ UNCHANGED <<store, memory, confirm_button, restart_pending, history,
                   clock, calendar, data_file, admin_conv, usdt_rate>>

(***************************************************************************)
(* One run of the job check_pending_payments, from the point where its    *)
(* body starts.  An exception in the loop is caught at line 384 and        *)
(* restart_bot is awaited.                                                  *)
(***************************************************************************)
InvoiceIds(list) == {list[i].invoice_id.v : i \in 1..Len(list)}

check_pending_payments ==
    LET pending == get_pending_payments(payments)
        r == RunCycle(pending, gateway,
                      [users |-> users, payments |-> payments, credits |-> credits,
                       aborted |-> FALSE])
    IN  /\ users' = r.users
        /\ payments' = r.payments
        /\ credits' = r.credits
        /\ restart_pending' = (restart_pending \/ r.aborted)
        /\ last_cycle' = [pending |-> InvoiceIds(pending),
                          paid |-> {i \in InvoiceIds(pending) : gateway[i] = "paid"}]
        /\ UNCHANGED <<orders, memory, confirm_button, world, debited>>

\* restart_bot: after the delay os.execl starts the program again; user_data
\* and the conversations are kept in memory only.
restart_bot ==
    /\ restart_pending
    /\ user_data' = [u \in Users |-> EmptyDict]
    /\ conv' = [u \in Users |-> END]
    /\ topup' = [u \in Users |-> END]
    /\ admin_conv' = [u \in Users |-> END]
    /\ restart_pending' = FALSE
    /\ UNCHANGED <<store, confirm_button, gateway, clock, calendar, data_file,
                   usdt_rate, history>>

(***************************************************************************)
(* Spec: the order conversation of one customer, the store of all users   *)
(* and the job.  PaySpec: the top-up conversations of all users, the      *)
(* provider and the job.                                                   *)
(***************************************************************************)
Next ==
    \/ \E u \in Users : start(u)
    \/ \E u \in Customers, text \in PlatformTexts : get_platform(u, text)
    \/ \E u \in Customers, data \in ServiceButtons : ask_channel(u, data)
    \/ \E u \in Customers, channel \in ChannelTexts : get_channel(u, channel)
    \/ \E u \in Customers, data \in CalendarButtons : handle_calendar(u, data)
    \/ \E u \in Customers : back_to_services(u)
    \/ \E u \in Customers : back_to_calendar(u)
    \/ \E u \in Customers : back_to_time(u)
    \/ \E u \in Customers, text \in TimeTexts, now \in NowTimes :
          get_time(u, text, IsPast(text, now))
    \/ \E u \in Customers, text \in DurationTexts : get_duration_text(u, text)
    \/ \E u \in Customers, data \in DurationButtons : get_duration_button(u, data)
    \/ \E u \in Customers, data \in ReviewButtons : callback_query(u, data)
    \/ \E u \in Customers, edited \in BOOLEAN : cancel_order(u, edited)
    \/ \E u \in Customers : confirm_order(u)
    \/ \E u \in Customers : confirm_order_stopped(u)
    \/ check_pending_payments
    \/ restart_bot

Spec == Init /\ [][Next]_vars

(***************************************************************************)
(* ClockSpec: the order conversation of one customer while time passes.    *)
(* Every handler reads the clock where the code calls datetime.now().      *)
(***************************************************************************)
\* restart_bot sleeps RESTART_DELAY seconds: while a restart is pending the
\* clock gets no further than that before the process is replaced.
tick ==
    /\ \E t \in ClockTimes :
          /\ t > clock
          /\ restart_pending => t - clock <= RESTART_DELAY
          /\ clock' = t
    /\ UNCHANGED <<store, memory, confirm_button, gateway, calendar, data_file,
                   admin_conv, usdt_rate,
                   restart_pending, history>>

ClockNext ==
    \/ tick
    \/ \E u \in Customers : start(u)
    \/ \E u \in Customers, text \in PlatformTexts : get_platform(u, text)
    \/ \E u \in Customers, data \in ServiceButtons : ask_channel(u, data)
    \/ \E u \in Customers, channel \in ChannelTexts : get_channel(u, channel)
    \/ \E u \in Customers, data \in CalendarButtons : handle_calendar(u, data)
    \/ \E u \in Customers : back_to_services(u)
    \/ \E u \in Customers : back_to_calendar(u)
    \/ \E u \in Customers : back_to_time(u)
    \/ \E u \in Customers, text \in TimeTexts :
          get_time(u, text, StreamBefore(user_data[u], text, clock))
    \/ \E u \in Customers, text \in DurationTexts : get_duration_text(u, text)
    \/ \E u \in Customers, data \in DurationButtons : get_duration_button(u, data)
    \/ \E u \in Customers : confirm_order(u)
    \/ restart_bot

ClockSpec == Init /\ [][ClockNext]_vars

PayNext ==
    \/ \E u \in Users : start(u)
    \/ \E u \in Users : topup_balance(u)
    \/ \E u \in Users, text \in AmountTexts : get_amount(u, text)
    \/ \E u \in Users, outcome \in InvoiceOutcomes : process_crypto_payment(u, outcome)
    \/ \E u \in Users, edited \in BOOLEAN : cancel_payment(u, edited)
    \/ \E u \in Users, edited \in BOOLEAN : cancel_order(u, edited)
    \/ \E id \in 1..MaxInvoices : pay_invoice(id)
    \/ check_pending_payments
    \/ restart_bot

PaySpec == Init /\ [][PayNext]_vars

(***************************************************************************)
(* The keep-alive job, the rate update and the web server thread.          *)
(* save_data opens data.json for writing, which empties it, and the dump   *)
(* reaches the disk when the file is closed.  keep_alive and get_usdt_rate *)
(* load and save on the event loop, without an await between the two, and  *)
(* change the "system" section only.  health runs load_data on the thread  *)
(* of the web server, at any moment.                                        *)
(***************************************************************************)
keep_alive_open ==
    /\ data_file = "closed"
    /\ data_file' = "open"
    /\ UNCHANGED <<store, memory, confirm_button, gateway, clock, calendar,
                   admin_conv, usdt_rate, restart_pending, history>>

\* load_data while the file is open for writing: json.load fails, init_db
\* fails to read it as well and writes default_data over it.
health ==
    /\ data_file' = IF data_file = "open" THEN "torn" ELSE data_file
    /\ UNCHANGED <<store, memory, confirm_button, gateway, clock, calendar,
                   admin_conv, usdt_rate, restart_pending, history>>

\* The writer's dump lands in the file that init_db has rewritten.  decodes:
\* the result is again the JSON text that was dumped; when it is not, the
\* next load_data runs init_db, which replaces the file by default_data.
keep_alive_close(decodes) ==
    /\ data_file # "closed"
    /\ data_file' = "closed"
    /\ IF data_file = "torn" /\ ~decodes
       THEN /\ users' = EmptyDict
            /\ orders' = EmptyDict
            /\ payments' = <<>>
       ELSE UNCHANGED store
    /\ UNCHANGED <<memory, confirm_button, gateway, clock, calendar,
                   admin_conv, usdt_rate, restart_pending, history>>

\* The price the exchange quotes.
RateQuotes == {90}

\* fetched: the request to the exchange gave a price; when it did not, the
\* rate is read back from data.json.
get_usdt_rate(fetched, price) ==
    /\ data_file = "closed"
    /\ usdt_rate' = IF fetched THEN price ELSE usdt_rate
    /\ UNCHANGED <<store, memory, confirm_button, gateway, clock, calendar,
                   data_file, admin_conv, restart_pending, history>>

WebNext ==
    \/ keep_alive_open
    \/ \E decodes \in BOOLEAN : keep_alive_close(decodes)
    \/ health
    \/ \E fetched \in BOOLEAN, price \in RateQuotes : get_usdt_rate(fetched, price)
    \/ \E u \in Users : data_file = "closed" /\ start(u)
    \/ \E u \in Users : data_file = "closed" /\ topup_balance(u)
    \/ \E u \in Users, text \in AmountTexts : data_file = "closed" /\ get_amount(u, text)
    \/ \E u \in Users, outcome \in InvoiceOutcomes :
          data_file = "closed" /\ process_crypto_payment(u, outcome)
    \/ data_file = "closed" /\ restart_bot

WebSpec == Init /\ [][WebNext]_vars

\* The job queue runs check_pending_payments every PAYMENT_CHECK_INTERVAL
\* seconds, in the restarted process too, and restart_bot ends its sleep.
(***************************************************************************)
(* DraftSpec: the order conversation with two platforms on the keyboard,   *)
(* every time text taken at a moment before the stream.                    *)
(***************************************************************************)
PlatformKeyboard == {"Twitch", "YouTube"}

DraftNext ==
    \/ \E u \in Customers : start(u)
    \/ \E u \in Customers, text \in PlatformKeyboard : get_platform(u, text)
    \/ \E u \in Customers, data \in ServiceButtons : ask_channel(u, data)
    \/ \E u \in Customers, channel \in ChannelTexts : get_channel(u, channel)
    \/ \E u \in Customers, data \in CalendarButtons : handle_calendar(u, data)
    \/ \E u \in Customers : back_to_time(u)
    \/ \E u \in Customers, text \in TimeTexts : get_time(u, text, FALSE)
    \/ \E u \in Customers, data \in DurationButtons : get_duration_button(u, data)
    \/ \E u \in Customers : confirm_order(u)
    \/ restart_bot

DraftSpec == Init /\ [][DraftNext]_vars

(***************************************************************************)
(* The admin conversation.  Its entry point and its state handler are      *)
(* registered in admin_conv only, after topup_conv and order_conv, so a    *)
(* text reaches them when neither of those conversations waits for a text. *)
(***************************************************************************)
TextForAdmin(u) ==
    /\ topup[u] # GET_AMOUNT
    /\ conv[u] \notin {GET_CHANNEL, GET_TIME, GET_DURATION}

\* Mutant: the entry point does not ask is_admin.
admin_change_rate_NoCheck(u) ==
    /\ admin_conv[u] = END
    /\ TextForAdmin(u)
    /\ admin_conv' = [admin_conv EXCEPT ![u] = ADMIN_BALANCE_CHANGE]
    /\ UNCHANGED <<store, memory, confirm_button, gateway, clock, calendar, data_file,
                   usdt_rate, restart_pending, history>>

admin_change_rate(u) ==
    /\ admin_conv[u] = END
    /\ TextForAdmin(u)
    /\ admin_conv' = IF is_admin(u)
                     THEN [admin_conv EXCEPT ![u] = ADMIN_BALANCE_CHANGE]
                     ELSE admin_conv
    /\ UNCHANGED <<store, memory, confirm_button, gateway, clock, calendar, data_file,
                   usdt_rate, restart_pending, history>>

RateTexts == {"95", "0", "abc"}

\* float(text): [ok |-> it parsed, v |-> its value]
ParseFloat(text) ==
    CASE text = "95" -> [ok |-> TRUE, v |-> 95]
      [] text = "0" -> [ok |-> TRUE, v |-> 0]
      [] OTHER -> [ok |-> FALSE, v |-> 0]

admin_set_rate(u, text) ==
    /\ admin_conv[u] = ADMIN_BALANCE_CHANGE
    /\ TextForAdmin(u)
    /\ LET new_rate == ParseFloat(text)
       IN  IF ~new_rate.ok \/ new_rate.v <= 0
           THEN UNCHANGED <<usdt_rate, admin_conv>>
           ELSE /\ usdt_rate' = new_rate.v
                /\ admin_conv' = [admin_conv EXCEPT ![u] = END]
    /\ UNCHANGED <<store, memory, confirm_button, gateway, clock, calendar, data_file,
                   restart_pending, history>>

AdminNext ==
    \/ \E u \in Users : start(u)
    \/ \E u \in Users : admin_change_rate(u)
    \/ \E u \in Users, text \in RateTexts : admin_set_rate(u, text)
    \/ \E fetched \in BOOLEAN, price \in RateQuotes : get_usdt_rate(fetched, price)
    \/ \E u \in Users : topup_balance(u)
    \/ \E u \in Users, text \in AmountTexts : get_amount(u, text)
    \/ \E u \in Users, edited \in BOOLEAN : cancel_payment(u, edited)
    \/ restart_bot

AdminSpec == Init /\ [][AdminNext]_vars

FairPaySpec == PaySpec /\ SF_vars(check_pending_payments) /\ WF_vars(restart_bot)

(***************************************************************************)
(* Helpers of the properties.                                              *)
(***************************************************************************)
Balance(u) == users[u].balance

PaymentOf(ps, id) == ps[CHOOSE i \in 1..Len(ps) : ps[i].invoice_id.v = id]

HasPayment(ps, id) == \E i \in 1..Len(ps) : ps[i].invoice_id.v = id

\* The start of the stream of an order or draft, as the clock counts.
StreamTime(d) ==
    LET t == ParseTime(d["start_time"])
    IN  DateTime(DayOf(d["stream_date"]), t.hours, t.minutes)

\* now.date(), as the day of the month.
Today(now) == now \div (24 * 60 * 60)

\* The keys of the price table of every platform.
ServiceKeys == {"chat_ru", "chat_eng", "viewers", "followers"}

\* admin_set_rate turns the text down.
RateRejected(text) == ~ParseFloat(text).ok \/ ParseFloat(text).v <= 0

\* Some text message is taken as the channel of user u's draft.
AdmitsChannel(u) ==
    \E channel \in ChannelTexts :
        ENABLED (get_channel(u, channel) /\ user_data' # user_data)

\* The review screen is up and no review of this user has offered to confirm.
InsufficientReview(u) ==
    /\ conv[u] = CONFIRM_ORDER
    /\ ~confirm_button[u]

(***************************************************************************)
(* C1: in every reachable state every user's stored balance is >= 0.      *)
(***************************************************************************)
C1_BalanceNeverNegative == \A u \in DOMAIN users : Balance(u) >= 0

(***************************************************************************)
(* C2: a run of confirm_order for a user whose stored balance is less     *)
(* than the draft amount creates no order and leaves the balances as they *)
(* were.                                                                   *)
(***************************************************************************)
C2_InsufficientFundsRejected ==
    [][\A u \in Users :
          (/\ confirm_order(u)
           /\ u \in DOMAIN users
           /\ Has(user_data[u], "amount")
           /\ Balance(u) < user_data[u]["amount"])
          => (orders' = orders /\ users' = users)]_vars

(***************************************************************************)
(* C3: a run of confirm_order that reaches its end with a complete draft  *)
(* whose amount is at most the user's balance adds exactly one order,     *)
(* pending and of the draft's amount, keeps the other orders, and lowers  *)
(* the user's balance by exactly that amount.                              *)
(***************************************************************************)
C3_SufficientFundsCharged ==
    [][\A u \in Users :
          (/\ confirm_order(u)
           /\ u \in DOMAIN users
           /\ DraftKeys \subseteq DOMAIN user_data[u]
           /\ user_data[u]["amount"] <= Balance(u))
          => (/\ Cardinality(DOMAIN orders') = Cardinality(DOMAIN orders) + 1
              /\ \A o \in DOMAIN orders : o \in DOMAIN orders' /\ orders'[o] = orders[o]
              /\ \A o \in DOMAIN orders' \ DOMAIN orders :
                    /\ orders'[o].status = "pending"
                    /\ orders'[o].amount = user_data[u]["amount"]
                    /\ orders'[o].user_id = u
              /\ users'[u].balance = Balance(u) - user_data[u]["amount"]
              /\ \A x \in DOMAIN users \ {u} : users'[x] = users[x])]_vars

\* An order of user 1 was confirmed out of a balance that covered it.
C3_Witness ==
    /\ 1 \in DOMAIN users
    /\ \E o \in debited : orders[o].user_id = 1 /\ orders[o].amount > 0
    /\ Cardinality(DOMAIN orders) = 1
    /\ Balance(1) >= 0

(***************************************************************************)
(* C4: in every persisted state an order exists if and only if its amount *)
(* has been debited from its owner's balance.                              *)
(***************************************************************************)
C4_OrderIffDebited == DOMAIN orders = debited

(***************************************************************************)
(* C5: each payment goes from created to paid at most once, and the       *)
(* balance of its owner is credited for the invoice exactly once: once a  *)
(* run of the job has found the payment pending while the provider held   *)
(* its invoice paid, one credit has been written for it, and never more   *)
(* than one.                                                               *)
(***************************************************************************)
C5_CreditedExactlyOnce ==
    /\ \A id \in DOMAIN credits : credits[id] <= 1
    /\ \A id \in last_cycle.paid : credits[id] = 1

(***************************************************************************)
(* C7: after a run of the job over a created payment whose invoice the    *)
(* provider reports paid, the payment is paid, carries paid_at, and its   *)
(* amount has been added to the owner's balance once.                      *)
(***************************************************************************)
C7_PaidAfterOneRun ==
    \A id \in last_cycle.paid :
        LET p == PaymentOf(payments, id)
        IN  /\ p.status = "paid"
            /\ "paid_at" \in DOMAIN p
            /\ p.user_id \in DOMAIN users
            /\ credits[id] = 1

(***************************************************************************)
(* C8: a created payment whose invoice the provider reports paid is       *)
(* eventually marked paid, the job being run again and again.              *)
(***************************************************************************)
C8_PaidInvoiceEventuallySettled ==
    \A id \in 1..MaxInvoices :
        (id \in DOMAIN gateway /\ gateway[id] = "paid")
            ~> (HasPayment(payments, id) /\ PaymentOf(payments, id).status = "paid")

(***************************************************************************)
(* C9: a run of the job in which the status call for a created payment    *)
(* fails leaves that payment created, in the place it had among the       *)
(* pending payments, and writes no credit for it; and a payment leaves    *)
(* created only when the provider holds its invoice paid.                  *)
(***************************************************************************)
C9_FailedCheckKeepsCreated ==
    [][/\ check_pending_payments =>
            \A i \in 1..Len(payments) :
                (/\ payments[i].status = "created"
                 /\ check_crypto_payment(gateway, payments[i].invoice_id).raised)
                => (/\ Len(payments') = Len(payments)
                    /\ payments'[i] = payments[i]
                    /\ credits'[payments[i].invoice_id.v] = credits[payments[i].invoice_id.v]
                    /\ get_pending_payments(payments') = get_pending_payments(payments)
                    /\ users' = users)
       /\ \A i \in 1..Len(payments) :
            (/\ payments[i].status = "created"
             /\ Len(payments') >= i
             /\ payments'[i].status # "created")
            => gateway[payments[i].invoice_id.v] = "paid"]_vars

\* A run of the job met a pending payment, the status call failed, and the
\* payment is still created and uncredited.
C9_Witness ==
    /\ \E id \in last_cycle.pending :
          /\ check_crypto_payment(gateway, JsonInt(id)).raised
          /\ PaymentOf(payments, id).status = "created"
          /\ credits[id] = 0
    /\ restart_pending

(***************************************************************************)
(* C10: in a run of the job over several pending payments, every payment  *)
(* that the provider reports paid is settled in that run, whatever        *)
(* happens to the other payments of the run.                               *)
(***************************************************************************)
C10_OthersStillSettled ==
    \A id \in last_cycle.paid :
        (last_cycle.pending \ {id} # {}) => PaymentOf(payments, id).status = "paid"

(***************************************************************************)
(* C12: a confirm_order callback delivered after the user's order          *)
(* conversation has ended or been cancelled (a second delivery of the     *)
(* callback finds it ended by the first) creates no order and applies no  *)
(* debit.                                                                   *)
(***************************************************************************)
C12_NoChargeAfterEnd ==
    [][\A u \in Users :
          (confirm_order(u) /\ conv[u] = END)
          => (orders' = orders /\ users' = users)]_vars

(***************************************************************************)
(* C13: confirm_order run while the user's order conversation is in any   *)
(* state other than the review state creates no order and changes no      *)
(* balance.                                                                 *)
(***************************************************************************)
C13_OrderOnlyFromReview ==
    [][\A u \in Users :
          (confirm_order(u) /\ conv[u] # CONFIRM_ORDER)
          => (orders' = orders /\ users' = users)]_vars

(***************************************************************************)
(* C14: in get_platform, get_channel, get_time, get_duration and          *)
(* get_amount an input that fails validation leaves the conversation in   *)
(* the state it was in and leaves the user's draft as it was.             *)
(***************************************************************************)
C14_RejectedInputChangesNothing ==
    \A u \in Users :
        /\ \A text \in PlatformTexts :
              Lower(text) \notin DOMAIN Prices
              => ~ENABLED (/\ get_platform(u, text)
                           /\ ~(conv'[u] = conv[u] /\ user_data'[u] = user_data[u]))
        /\ \A channel \in ChannelTexts :
              (channel < 1 \/ channel > 100)
              => ~ENABLED (/\ get_channel(u, channel)
                           /\ ~(conv'[u] = conv[u] /\ user_data'[u] = user_data[u]))
        /\ \A text \in TimeTexts, now \in NowTimes :
              (/\ Has(user_data[u], "stream_date")
               /\ LET t == ParseTime(text)
                  IN  \/ ~t.ok
                      \/ t.hours \notin 0..23
                      \/ t.minutes \notin 0..59
                      \/ t.hours * 60 + t.minutes < now)
              => ~ENABLED (/\ get_time(u, text, IsPast(text, now))
                           /\ ~(conv'[u] = conv[u] /\ user_data'[u] = user_data[u]))
        /\ \A text \in DurationTexts :
              (~ParseInt(text).ok \/ ParseInt(text).v \notin 1..24)
              => ~ENABLED (/\ get_duration_text(u, text)
                           /\ ~(conv'[u] = conv[u] /\ user_data'[u] = user_data[u]))
        /\ \A text \in AmountTexts :
              (~ParseInt(text).ok \/ ParseInt(text).v < 100)
              => ~ENABLED (/\ get_amount(u, text)
                           /\ ~(topup'[u] = topup[u] /\ user_data'[u] = user_data[u]))

\* The customer is asked for the time with a date chosen, and a text that is
\* no time of day is delivered and answered without any change.
C14_Witness ==
    /\ conv[1] = GET_TIME
    /\ Has(user_data[1], "stream_date")
    /\ ~Has(user_data[1], "start_time")
    /\ ENABLED (get_time(1, "25:00", FALSE) /\ UNCHANGED vars)

(***************************************************************************)
(* C15: cancel_order ends the order conversation and discards the draft:  *)
(* after it none of platform, service, channel, stream_date, start_time,  *)
(* duration, amount is set for the user.                                   *)
(***************************************************************************)
C15_CancelDiscardsDraft ==
    [][\A u \in Users :
          cancel_order(u, TRUE)
          => (conv'[u] = END /\ DraftKeys \cap DOMAIN user_data'[u] = {})]_vars

(***************************************************************************)
(* C16: cancel_order, cancel_payment and /start leave every order, every  *)
(* payment and the balance of every registered user unchanged.            *)
(***************************************************************************)
C16_CancelKeepsLedger ==
    [][\A u \in Users :
          (\/ start(u)
           \/ \E edited \in BOOLEAN : cancel_order(u, edited)
           \/ \E edited \in BOOLEAN : cancel_payment(u, edited))
          => (/\ orders' = orders
              /\ payments' = payments
              /\ \A x \in DOMAIN users :
                    x \in DOMAIN users' /\ users'[x].balance = users[x].balance)]_vars

\* A top-up was cancelled after its amount was entered, with payments on record.
C16_Witness ==
    \E u \in Users :
        /\ topup[u] = END
        /\ Has(user_data[u], "topup_amount")
        /\ u \in DOMAIN users
        /\ payments # <<>>

(***************************************************************************)
(* C17: /start received in any state of the order conversation ends the   *)
(* conversation and discards the draft.                                    *)
(***************************************************************************)
C17_StartEndsConversation ==
    \A u \in Customers :
        (conv[u] # END /\ ENABLED start(u))
        => ENABLED (/\ start(u)
                    /\ conv'[u] = END
                    /\ DraftKeys \cap DOMAIN user_data'[u] = {})

(***************************************************************************)
(* C18: when the review finds the balance too low, the draft is kept and  *)
(* the button of the review screen takes the user to the top-up           *)
(* conversation.                                                            *)
(***************************************************************************)
C18_TopupReachableFromReview ==
    \A u \in Customers :
        InsufficientReview(u)
        => /\ DraftKeys \subseteq DOMAIN user_data[u]
           /\ \E data \in ReviewButtons :
                 ENABLED (callback_query(u, data) /\ topup'[u] = GET_AMOUNT)

(***************************************************************************)
(* C19: the restart that follows an error in one user's handler ends the  *)
(* conversation and drops the memory of that user at most: the            *)
(* conversation states and user_data of the other users are as before.    *)
(***************************************************************************)
C19_ErrorAbortsOneUser ==
    [][restart_bot
          => Cardinality({u \in Users : \/ user_data'[u] # user_data[u]
                                        \/ conv'[u] # conv[u]
                                        \/ topup'[u] # topup[u]}) <= 1]_vars

C21_StreamNotBeforeConfirmation ==
    \A o \in DOMAIN orders : ~(StreamTime(orders[o]) < orders[o].order_date)

(***************************************************************************)
(* C22: the date that handle_calendar stores in the draft is never a day  *)
(* strictly before the current day, also when the calendar whose button   *)
(* is pressed was shown on an earlier day.                                 *)
(***************************************************************************)
C22_NoPastDateAdmitted ==
    [][\A u \in Users, data \in CalendarButtons :
          handle_calendar(u, data)
          => ~(Midnight(DayOf(user_data'[u]["stream_date"]) + 1) <= clock)]_vars

(***************************************************************************)
(* C23: when get_duration is given a duration in 1..24 for a registered   *)
(* user whose draft holds a platform and a service, the amount it puts in *)
(* the draft is the catalog rate of that platform and service times the   *)
(* duration.                                                                *)
(***************************************************************************)
C23_AmountIsRateTimesDuration ==
    [][\A u \in Users, text \in DurationTexts :
          (/\ get_duration_text(u, text)
           /\ ParseInt(text).ok
           /\ ParseInt(text).v \in 1..24
           /\ u \in DOMAIN users
           /\ Has(user_data[u], "platform")
           /\ Has(user_data[u], "service"))
          => LET d == user_data'[u]
             IN  /\ Has(d, "amount")
                 /\ d["service"] \in DOMAIN Prices[d["platform"]]
                 /\ d["amount"] = Prices[d["platform"]][d["service"]] * ParseInt(text).v]_vars

(***************************************************************************)
(* C24: create_order gives the new order an identifier that no existing   *)
(* order has, stamps it with the time of creation, sets its status to     *)
(* pending whatever status the order data carried, keeps the other fields *)
(* and leaves every existing order as it was.                              *)
(***************************************************************************)
C24_CreateOrderFresh ==
    \A status \in {"pending", "completed", "cancelled"} :
        LET order_data == [user_id |-> 1, amount |-> 100, status |-> status]
            os2 == create_order(orders, order_data)
            new == DOMAIN os2 \ DOMAIN orders
        IN  /\ Cardinality(new) = 1
            /\ \A o \in new :
                  /\ os2[o].order_id = o
                  /\ os2[o].order_date = clock
                  /\ os2[o].status = "pending"
                  /\ os2[o].user_id = 1 /\ os2[o].amount = 100
            /\ \A o \in DOMAIN orders : os2[o] = orders[o]

\* Orders were created one after another, each under its own identifier.
C24_Witness ==
    /\ Cardinality(DOMAIN orders) = MaxOrders
    /\ \A o \in DOMAIN orders : orders[o].order_id = o /\ orders[o].status = "pending"

(***************************************************************************)
(* C25: a status update of an order that is completed or cancelled is     *)
(* refused and leaves the order unchanged.                                 *)
(***************************************************************************)
C25_TerminalStatusIsFinal ==
    \A o \in DOMAIN orders :
        \A terminal \in {"completed", "cancelled"} :
            \A status \in {"pending", "completed", "cancelled"} :
                LET done == update_order(orders, o, [status |-> terminal])
                IN  update_order(done, o, [status |-> status]) = done

(***************************************************************************)
(* C30: the forward path leads to the charged state: the service button   *)
(* takes the conversation to the channel step, an accepted channel to the *)
(* date step, a calendar day to the time step and an accepted time to the *)
(* duration step.                                                           *)
(***************************************************************************)
C30_ForwardPathAdvances ==
    [][\A u \in Users :
          /\ \A data \in ServiceButtons :
                ask_channel(u, data) => conv'[u] = GET_CHANNEL
          /\ \A channel \in ChannelTexts :
                (get_channel(u, channel) /\ channel \in 1..100) => conv'[u] = GET_DATE
          /\ \A data \in CalendarButtons :
                handle_calendar(u, data) => conv'[u] = GET_TIME
          /\ \A text \in TimeTexts, now \in NowTimes :
                (/\ get_time(u, text, IsPast(text, now))
                 /\ Has(user_data[u], "stream_date")
                 /\ TimeParses(text) /\ ~IsPast(text, now)) => conv'[u] = GET_DURATION]_vars

(***************************************************************************)
(* C27: when create_crypto_invoice raises or returns no invoice,          *)
(* process_crypto_payment creates no payment and changes no balance; a    *)
(* payment is recorded only for an invoice the provider has just issued,  *)
(* with status created, the requesting user as owner and the amount the   *)
(* user asked for.                                                          *)
(***************************************************************************)
C27_NoPaymentWithoutInvoice ==
    [][\A u \in Users :
          /\ \A outcome \in {"none", "raise"} :
                process_crypto_payment(u, outcome)
                => (payments' = payments /\ users' = users)
          /\ process_crypto_payment(u, "invoice")
                => /\ users' = users
                   /\ \/ payments' = payments
                      \/ /\ Len(payments') = Len(payments) + 1
                         /\ SubSeq(payments', 1, Len(payments)) = payments
                         /\ LET p == payments'[Len(payments')]
                            IN  /\ p.status = "created"
                                /\ p.user_id = u
                                /\ p.amount = user_data[u]["topup_amount"]
                                /\ p.invoice_id.v \in DOMAIN gateway' \ DOMAIN gateway]_vars

\* A payment is on record and a user who has entered an amount asks for an
\* invoice that the provider does not issue.
C27_Witness ==
    /\ payments # <<>>
    /\ \E u \in Users :
          /\ Has(user_data[u], "topup_amount")
          /\ topup[u] = CONFIRM_ORDER
          /\ ENABLED (process_crypto_payment(u, "none") /\ UNCHANGED vars)

(***************************************************************************)
(* C28: no step of the keep-alive job, of the rate update or of the       *)
(* /health endpoint changes a user, an order or a payment, also when the  *)
(* endpoint is served while the data file is being written.                *)
(***************************************************************************)
C28_HousekeepingKeepsRecords ==
    [][(\/ keep_alive_open
        \/ \E decodes \in BOOLEAN : keep_alive_close(decodes)
        \/ health
        \/ \E fetched \in BOOLEAN, price \in RateQuotes : get_usdt_rate(fetched, price))
       => UNCHANGED store]_vars

(***************************************************************************)
(* C31: a back button pressed at the step it is shown on leads to the     *)
(* step before it and changes neither the draft nor the store: from the   *)
(* duration step to the time step, from the time step to the date step,   *)
(* and from the channel entry to the choice of the service, where no text *)
(* message is taken as the channel.                                        *)
(***************************************************************************)
C31_BackLeadsOneStepBack ==
    \A u \in Customers :
        /\ conv[u] = GET_DURATION
              => ~ENABLED (back_to_time(u)
                           /\ ~(conv'[u] = GET_TIME /\ UNCHANGED <<user_data, store>>))
        /\ conv[u] = GET_TIME
              => ~ENABLED (back_to_calendar(u)
                           /\ ~(conv'[u] = GET_DATE /\ UNCHANGED <<user_data, store>>))
        /\ (conv[u] = GET_CHANNEL /\ Has(user_data[u], "platform"))
              => ~ENABLED (back_to_services(u)
                           /\ ~(UNCHANGED <<user_data, store>> /\ ~AdmitsChannel(u)'))

(***************************************************************************)
(* C32: the service that ask_channel stores in the draft is a key of the  *)
(* price table: chat_ru, chat_eng, viewers or followers.                   *)
(***************************************************************************)
C32_ServiceIsCatalogKey ==
    \A u \in Users :
        Has(user_data[u], "service") => user_data[u]["service"] \in ServiceKeys

C34_SelectableIffNotBeforeToday ==
    \A data \in CalendarButtons :
        data \in show_calendar(clock) <=> ~(DayOf(SplitSecond(data)) < Today(clock))

(***************************************************************************)
(* C35: the amount of every order whose service has a catalog rate is the *)
(* rate of the order's platform and service times the order's duration.    *)
(***************************************************************************)
C35_OrderAmountIsRateTimesDuration ==
    \A o \in DOMAIN orders :
        LET r == orders[o]
        IN  r.service \in DOMAIN Prices[r.platform]
            => r.amount = Prices[r.platform][r.service] * r.duration

(***************************************************************************)
(* C36: only an admin is ever in the state ADMIN_BALANCE_CHANGE, so only  *)
(* an admin changes the rate through admin_set_rate; a value that is      *)
(* turned down leaves the rate and the state as they were.                 *)
(***************************************************************************)
C36_OnlyAdminSetsRate ==
    /\ [](\A u \in Users : admin_conv[u] = ADMIN_BALANCE_CHANGE => is_admin(u))
    /\ [][\A u \in Users, text \in RateTexts :
             admin_set_rate(u, text)
             => /\ usdt_rate' # usdt_rate => is_admin(u)
                /\ RateRejected(text)
                      => (usdt_rate' = usdt_rate
                          /\ admin_conv'[u] = ADMIN_BALANCE_CHANGE)]_vars

\* An admin has set the rate and is in the state again, while a user who is
\* not an admin has a conversation that did not enter it.
C36_Witness ==
    /\ usdt_rate = 95
    /\ \E u \in ADMIN_IDS : admin_conv[u] = ADMIN_BALANCE_CHANGE
    /\ \E u \in Users \ ADMIN_IDS :
          admin_conv[u] = END /\ ENABLED admin_change_rate(u)

(***************************************************************************)
(* C37: start creates a record with balance 0 for a sender who has none,  *)
(* changes only last_activity of a sender who has one, leaves every other *)
(* user's record as it was, and no step removes a user or an order.        *)
(***************************************************************************)
C37_StartFrameAndNoRemoval ==
    [][/\ \A u \in Users :
             start(u)
             => /\ u \notin DOMAIN users => users'[u].balance = 0
                /\ u \in DOMAIN users => users'[u].balance = users[u].balance
                /\ \A x \in DOMAIN users \ {u} : users'[x] = users[x]
       /\ DOMAIN users \subseteq DOMAIN users'
       /\ DOMAIN orders \subseteq DOMAIN orders']_vars

=============================================================================
